---- MODULE Spec2Model ----
(***************************************************************************)
(* LuminaLaTeX: the LaTeX-subset renderer (LatexRenderer and               *)
(* renderMathInElement) in its two variants, src/src/App.tsx and           *)
(* src/unnamed/part_000, and the document/export state of App.             *)
(*                                                                         *)
(* Text is a sequence of lexemes.  A lexeme is a string of one or more     *)
(* characters of the real text ("\\textbf{" is the eight characters        *)
(* \textbf{ ).  The lexemes are cut so that every regular expression of    *)
(* the source matches whole lexemes only: no pattern of the code matches   *)
(* inside a lexeme or across the border of two lexemes other than as the   *)
(* lexeme sequences the operators below look for, and the markup the code  *)
(* writes (tags) contains none of \ { } $ [ ] ( ) or a newline.  Every     *)
(* lexeme of a working text carries the set of positions of the source     *)
(* document it stems from (field o), which is what the statements about    *)
(* regions of the original source are phrased in.                          *)
(***************************************************************************)
EXTENDS Integers, Sequences, FiniteSets, TLC

VARIABLES
    variant,          \* which source file is built: "App" (src/src/App.tsx) or "part_000"
    files,            \* App state: the project's files (part_000: one file, its latex state)
    activeFileIndex,  \* App state: index of the file shown, counted from 0
    isExporting,      \* App state: the in-progress flag of the export
    logs,             \* App state: the console log entries
    previewRef,       \* "null" before the first commit, "div" once mounted
    inflight,         \* exports that have started and whose rasterize step has not settled
    html,             \* the markup LatexRenderer wrote to its container last
    innerHTML,        \* the container's innerHTML
    regions,          \* the regions handed to the math backend by the last render
    renderedContent   \* the content the effect of LatexRenderer last ran for

vars == <<variant, files, activeFileIndex, isExporting, logs, previewRef,
          inflight, html, innerHTML, regions, renderedContent>>

-----------------------------------------------------------------------------
(* Lexemes and small helpers                                               *)

NL == "\n"

\* a lexeme of working text: characters c, source positions o
El(c, o) == [c |-> c, o |-> o]

\* the source document as working text: lexeme i stems from position i
Src(content) == [i \in 1..Len(content) |-> El(content[i], {i})]

\* the characters of a working text, without the bookkeeping
Chars(s) == [i \in 1..Len(s) |-> s[i].c]

\* the source positions a stretch of working text stems from
Origins(s, i, j) == UNION {s[k].o : k \in i..j}

SetMin(S) == CHOOSE x \in S : \A y \in S : x <= y

SetMax(S) == CHOOSE x \in S : \A y \in S : y <= x

\* does the lexeme sequence pat occur in s at position i
MatchAt(s, i, pat) ==
    /\ i >= 1
    /\ i + Len(pat) - 1 <= Len(s)
    /\ \A k \in 1..Len(pat) : s[i + k - 1].c = pat[k]

-----------------------------------------------------------------------------
(* Structural translation: the chain of String.replace calls               *)

\* a greedy group: it ends at the last "}" of the line
GreedyBracedEnd(s, i, opener) ==
    IF s[i].c # opener THEN 0
    ELSE LET breaks == {j \in (i+1)..Len(s) : s[j].c = NL}
             closes == {j \in (i+1)..Len(s) : s[j].c = "}" /\ \A b \in breaks : j < b}
         IN  IF closes = {} THEN 0 ELSE SetMax(closes)

\* /\\cmd\{(.*?)\}/ tried at position i: the lazy group ends at the first
\* "}" after the opener, and "." does not cross a newline.  0 = no match.
BracedEnd(s, i, opener) ==
    IF s[i].c # opener THEN 0
    ELSE LET closes == {j \in (i+1)..Len(s) : s[j].c = "}"}
             breaks == {j \in (i+1)..Len(s) : s[j].c = NL}
         IN  IF closes = {} THEN 0
             ELSE LET j == SetMin(closes)
                  IN  IF \E b \in breaks : b < j THEN 0 ELSE j

\* the replacement string '<open>$n</close>': $1 is the captured group;
\* a reference to a group the pattern does not have stays as written
GroupRef(s, i, j, n) ==
    IF n = 1 THEN SubSeq(s, i + 1, j - 1)
    ELSE <<El("$", s[i].o), El("2", s[i].o)>>

\* the global replace from position i on: the text up to the leftmost
\* match is kept, the match is replaced, the scan goes on behind it
RECURSIVE ReplaceBracedFrom(_, _, _, _, _, _)
ReplaceBracedFrom(s, i, opener, openTag, closeTag, n) ==
    LET M == {p \in i..Len(s) : BracedEnd(s, p, opener) # 0}
    IN  IF M = {} THEN SubSeq(s, i, Len(s))
        ELSE LET p == SetMin(M)
                 j == BracedEnd(s, p, opener)
             IN  SubSeq(s, i, p - 1)
                 \o <<El(openTag, s[p].o)>> \o GroupRef(s, p, j, n)
                 \o <<El(closeTag, s[j].o)>>
                 \o ReplaceBracedFrom(s, j + 1, opener, openTag, closeTag, n)

\* s.replace(/\\cmd\{(.*?)\}/g, '<open>$n</close>')
ReplaceBraced(s, opener, openTag, closeTag, n) ==
    ReplaceBracedFrom(s, 1, opener, openTag, closeTag, n)

\* s.replace(/lexeme/g, 'tag')
ReplaceLexeme(s, lexeme, tag) ==
    [i \in 1..Len(s) |-> IF s[i].c = lexeme THEN El(tag, s[i].o) ELSE s[i]]

\* the group of /\\item (.*?)/: a lazy group with nothing after it in the
\* pattern takes the shortest text, the empty one, at position i + 1
ItemGroupEnd(s, i) == i

RECURSIVE ReplaceItemFrom(_, _)
ReplaceItemFrom(s, i) ==
    LET M == {p \in i..Len(s) : s[p].c = "\\item "}
    IN  IF M = {} THEN SubSeq(s, i, Len(s))
        ELSE LET p == SetMin(M)
                 j == ItemGroupEnd(s, p)
             IN  SubSeq(s, i, p - 1)
                 \o <<El("<li>", s[p].o)>> \o SubSeq(s, p + 1, j)
                 \o <<El("</li>", s[p].o)>> \o ReplaceItemFrom(s, j + 1)

\* s.replace(/\\item (.*?)/g, '<li>$1</li>')
ReplaceItem(s) == ReplaceItemFrom(s, 1)

RECURSIVE ReplaceBreaksFrom(_, _)
ReplaceBreaksFrom(s, i) ==
    LET M == {p \in i..Len(s) : MatchAt(s, p, <<NL, NL>>)}
    IN  IF M = {} THEN SubSeq(s, i, Len(s))
        ELSE LET p == SetMin(M)
             IN  SubSeq(s, i, p - 1)
                 \o <<El("<br/>", s[p].o), El("<br/>", s[p + 1].o)>>
                 \o ReplaceBreaksFrom(s, p + 2)

\* s.replace(/\n\n/g, '<br/><br/>')
ReplaceBreaks(s) == ReplaceBreaksFrom(s, 1)

\* the group reference the \subsection replacement is written with
SubsectionRef(v) == IF v = "App" THEN 1 ELSE 2

\* let html = content.replace(...)...replace(...)
Translate(v, content) ==
    LET s0 == Src(content)
        s1 == ReplaceBraced(s0, "\\section{", "<h1 class=\"latex-h1\">", "</h1>", 1)
        s2 == ReplaceBraced(s1, "\\subsection{", "<h2 class=\"latex-h2\">", "</h2>",
                            SubsectionRef(v))
        s3 == ReplaceBraced(s2, "\\textbf{", "<strong>", "</strong>", 1)
        s4 == ReplaceBraced(s3, "\\textit{", "<em>", "</em>", 1)
        s5 == ReplaceBraced(s4, "\\underline{", "<u>", "</u>", 1)
        s6 == ReplaceLexeme(s5, "\\begin{itemize}", "<ul class=\"latex-ul\">")
        s7 == ReplaceLexeme(s6, "\\end{itemize}", "</ul>")
        s8 == ReplaceItem(s7)
    IN  ReplaceBreaks(s8)

-----------------------------------------------------------------------------
(* containerRef.current.innerHTML = html, read back as elem.innerHTML:     *)
(* the markup is parsed into elements and text, and serialised again.      *)
(* Text comes back with "&" escaped, <br/> comes back as <br>, an end tag  *)
(* with no open element is dropped, an element left open is closed.  The   *)
(* markup here is what Translate writes: h1, h2, strong, em, u, ul, li,    *)
(* br.  (A block element left open inside a closing inline element is      *)
(* re-parented by the parser; here it is only closed.  <li> is always      *)
(* written together with its </li>, so only <ul> can be in that place.)    *)

TagName(c) ==
    CASE c \in {"<h1 class=\"latex-h1\">", "</h1>"} -> "h1"
      [] c \in {"<h2 class=\"latex-h2\">", "</h2>"} -> "h2"
      [] c \in {"<strong>", "</strong>"} -> "strong"
      [] c \in {"<em>", "</em>"} -> "em"
      [] c \in {"<u>", "</u>"} -> "u"
      [] c \in {"<ul class=\"latex-ul\">", "</ul>"} -> "ul"
      [] c \in {"<li>", "</li>"} -> "li"
      [] c = "<br/>" -> "br"
      [] OTHER -> "#text"

StartTags ==
    {"<h1 class=\"latex-h1\">", "<h2 class=\"latex-h2\">", "<strong>", "<em>",
     "<u>", "<ul class=\"latex-ul\">", "<li>"}

EndTags == {"</h1>", "</h2>", "</strong>", "</em>", "</u>", "</ul>", "</li>"}

IsStartTag(c) == c \in StartTags

IsEndTag(c) == c \in EndTags

EndTagOf(name) ==
    CASE name = "h1" -> "</h1>"
      [] name = "h2" -> "</h2>"
      [] name = "strong" -> "</strong>"
      [] name = "em" -> "</em>"
      [] name = "u" -> "</u>"
      [] name = "ul" -> "</ul>"
      [] OTHER -> "</li>"

Formatting == {"strong", "em", "u"}
Heading == {"h1", "h2"}

\* a text node's characters as the serialiser writes them
EscapeText(c) == IF c = "&" THEN "&amp;" ELSE c

\* the tree builder: open elements (innermost last), active formatting
\* elements, and the serialisation of what is built so far
Builder(stack, afl, out) == [stack |-> stack, afl |-> afl, out |-> out]

InStack(b, e) == \E k \in 1..Len(b.stack) : b.stack[k] = e

\* close the open elements from the innermost down to number k
RECURSIVE PopTo(_, _, _)
PopTo(b, k, o) ==
    IF Len(b.stack) < k \/ k < 1 THEN b
    ELSE LET top == b.stack[Len(b.stack)]
         IN  PopTo(Builder(SubSeq(b.stack, 1, Len(b.stack) - 1), b.afl,
                           Append(b.out, El(EndTagOf(TagName(top.c)), o))),
                   k, o)

\* innermost open element with a name in names; 0 = none
Innermost(b, names) ==
    LET K == {k \in 1..Len(b.stack) : TagName(b.stack[k].c) \in names}
    IN  IF K = {} THEN 0 ELSE CHOOSE k \in K : \A m \in K : m <= k

\* "reconstruct the active formatting elements": the ones whose element
\* was closed by another element's end tag are opened again
RECURSIVE Reopen(_, _)
Reopen(b, k) ==
    IF k > Len(b.afl) THEN b
    ELSE Reopen(Builder(Append(b.stack, b.afl[k]), b.afl, Append(b.out, b.afl[k])),
                k + 1)

Reconstruct(b) ==
    IF b.afl = <<>> \/ InStack(b, b.afl[Len(b.afl)]) THEN b
    ELSE LET K == {k \in 1..Len(b.afl) : InStack(b, b.afl[k])}
             first == IF K = {} THEN 1 ELSE (CHOOSE k \in K : \A m \in K : m <= k) + 1
         IN  Reopen(b, first)

RemoveFrom(seq, e) == SelectSeq(seq, LAMBDA x : x # e)

\* the end tag of a formatting element
FormattingEnd(b, t) ==
    LET K == {k \in 1..Len(b.afl) : TagName(b.afl[k].c) = TagName(t.c)}
    IN  IF K = {} THEN b
        ELSE LET fe == b.afl[CHOOSE k \in K : \A m \in K : m <= k]
                 P == {k \in 1..Len(b.stack) : b.stack[k] = fe}
             IN  IF P = {} THEN Builder(b.stack, RemoveFrom(b.afl, fe), b.out)
                 ELSE LET b1 == PopTo(b, CHOOSE k \in P : \A m \in P : m <= k, t.o)
                      IN  Builder(b1.stack, RemoveFrom(b1.afl, fe), b1.out)

\* one token of the markup
BuildToken(b, t) ==
    LET name == TagName(t.c)
    IN  CASE name = "#text" ->
               LET b1 == Reconstruct(b)
               IN  Builder(b1.stack, b1.afl, Append(b1.out, El(EscapeText(t.c), t.o)))
          [] name = "br" ->
               LET b1 == Reconstruct(b)
               IN  Builder(b1.stack, b1.afl, Append(b1.out, El("<br>", t.o)))
          [] IsStartTag(t.c) /\ name \in Formatting ->
               LET b1 == Reconstruct(b)
               IN  Builder(Append(b1.stack, t), Append(b1.afl, t), Append(b1.out, t))
          [] IsStartTag(t.c) /\ name \in Heading ->
               LET b1 == IF b.stack # <<>> /\ TagName(b.stack[Len(b.stack)].c) \in Heading
                         THEN PopTo(b, Len(b.stack), {})
                         ELSE b
               IN  Builder(Append(b1.stack, t), b1.afl, Append(b1.out, t))
          [] IsStartTag(t.c) ->
               Builder(Append(b.stack, t), b.afl, Append(b.out, t))
          [] IsEndTag(t.c) /\ name \in Formatting -> FormattingEnd(b, t)
          [] IsEndTag(t.c) /\ name \in Heading -> PopTo(b, Innermost(b, Heading), t.o)
          [] IsEndTag(t.c) /\ name = "li" ->
               IF Innermost(b, {"li"}) > Innermost(b, {"ul"})
               THEN PopTo(b, Innermost(b, {"li"}), t.o)
               ELSE b
          [] OTHER -> PopTo(b, Innermost(b, {name}), t.o)

\* the tokens lo..hi of the markup, in order: first half, then second
\* half.  (The test on b makes the builder of the first half a value
\* before the second half is begun; every element on the stack has had
\* its start tag written, so the test never fails.)
RECURSIVE BuildRange(_, _, _, _)
BuildRange(s, lo, hi, b) ==
    IF lo > hi \/ Len(b.stack) > Len(b.out) THEN b
    ELSE IF lo = hi THEN BuildToken(b, s[lo])
    ELSE BuildRange(s, (lo + hi) \div 2 + 1, hi, BuildRange(s, lo, (lo + hi) \div 2, b))

\* elem.innerHTML after elem.innerHTML = html: at the end of the markup
\* the elements still open are closed
InnerHTMLOf(markup) ==
    PopTo(BuildRange(markup, 1, Len(markup), Builder(<<>>, <<>>, <<>>)), 1, {}).out

-----------------------------------------------------------------------------
(* The math backend, katex.renderToString(math, {displayMode,              *)
(* throwOnError}).  It is a library outside the repository; what the code  *)
(* relies on is that it returns markup, or fails on input it cannot parse: *)
(* with throwOnError false the failure comes back as markup that shows     *)
(* the error, otherwise (the default) it is thrown.  The input it cannot   *)
(* parse is, here, math whose braces do not balance.  Its markup repeats   *)
(* the math it was given, escaped for markup: as the TeX annotation of     *)
(* the rendering, or as the text of the error element.                     *)

Openers == {"\\section{", "\\subsection{", "\\textbf{", "\\textit{", "\\underline{"}

BraceStep(c) == IF c = "{" \/ c \in Openers THEN 1 ELSE IF c = "}" THEN -1 ELSE 0

\* the brace depth after the first k lexemes of math
Depth(math, k) ==
    Cardinality({j \in 1..k : BraceStep(math[j]) = 1})
    - Cardinality({j \in 1..k : BraceStep(math[j]) = -1})

Unbalanced(math) ==
    \/ \E k \in 1..Len(math) : Depth(math, k) < 0
    \/ Depth(math, Len(math)) # 0

\* "ok": markup; "error": markup showing the error; "throw": an exception
RenderToString(math, throwOnError) ==
    IF ~Unbalanced(math) THEN "ok"
    ELSE IF throwOnError THEN "throw" ELSE "error"

\* the option object of the calls in renderMathInElement: App.tsx passes
\* throwOnError: false, part_000 passes none and gets the default
ThrowOnError(v) == v # "App"

-----------------------------------------------------------------------------
(* renderMathInElement: one String.replace per delimiter style             *)

OpenDelim(style) ==
    CASE style = "BlockBracket" -> <<"\\[">>
      [] style = "BlockDollar" -> <<"$", "$">>
      [] style = "InlineParen" -> <<"\\(">>
      [] OTHER -> <<"$">>

CloseDelim(style) ==
    CASE style = "BlockBracket" -> <<"\\]">>
      [] style = "BlockDollar" -> <<"$", "$">>
      [] style = "InlineParen" -> <<"\\)">>
      [] OTHER -> <<"$">>

IsBlock(style) == style \in {"BlockBracket", "BlockDollar"}

\* /open([\s\S]*?)close/ tried at position i: the lazy group ends before
\* the first occurrence of the closing delimiter.  0 = no match, else the
\* position of the closing delimiter.
DelimEnd(s, i, style) ==
    IF ~MatchAt(s, i, OpenDelim(style)) THEN 0
    ELSE LET from == i + Len(OpenDelim(style))
             ends == {j \in from..Len(s) : MatchAt(s, j, CloseDelim(style))}
         IN  IF ends = {} THEN 0 ELSE SetMin(ends)

\* the tags of the markup the passes write
MathTags ==
    {"<div class=\"math-block\">", "</div>", "<span class=\"math-inline\">", "</span>",
     "<span class=\"katex\">", "<span class=\"katex-error\">",
     "<span style=\"color: red\">", "<span class=\"math-error\">"}

\* a lexeme of math as the backend writes it into its markup: & and the
\* angle brackets of a tag are escaped, so a tag comes out as text
KatexEscape(c) ==
    CASE c = "&" -> "&amp;"
      [] c = "&amp;" -> "&amp;amp;"
      [] c \in StartTags \cup EndTags \cup MathTags \cup {"<br>"} -> "&lt;tag&gt;"
      [] OTHER -> c

\* the markup the backend returns for math: kind is "katex" or "katex-error"
KatexMarkup(kind, math, span) ==
    <<El(IF kind = "katex" THEN "<span class=\"katex\">" ELSE "<span class=\"katex-error\">",
         span)>>
    \o [i \in 1..Len(math) |-> El(KatexEscape(math[i].c), math[i].o)]
    \o <<El("</span>", span)>>

\* the wrapper the callback puts around the backend's markup
Wrapped(style, kind, math, span) ==
    IF IsBlock(style)
    THEN <<El("<div class=\"math-block\">", span)>> \o KatexMarkup(kind, math, span)
         \o <<El("</div>", span)>>
    ELSE <<El("<span class=\"math-inline\">", span)>> \o KatexMarkup(kind, math, span)
         \o <<El("</span>", span)>>

\* what the catch block of a pass returns
Caught(v, style, math, span) ==
    IF v = "App"
    THEN IF style = "BlockBracket"
         THEN <<El("<span style=\"color: red\">", span)>> \o math
              \o <<El("</span>", span)>>
         ELSE math
    ELSE <<El("<span class=\"math-error\">", span)>> \o math \o <<El("</span>", span)>>

\* the replace callback of a pass: (_, math) => { try {...} catch {...} }
Callback(v, style, math, span) ==
    LET r == RenderToString(Chars(math), ThrowOnError(v))
    IN  CASE r = "ok" -> Wrapped(style, "katex", math, span)
          [] r = "error" -> Wrapped(style, "katex-error", math, span)
          [] OTHER -> Caught(v, style, math, span)

\* the record of one matched region: its style, the source positions of
\* its opening delimiter, closing delimiter and of all of it, the math
\* handed to the backend and what the backend did
Region(s, i, j, style, throwOnError, phase) ==
    LET from == i + Len(OpenDelim(style))
        last == j + Len(CloseDelim(style)) - 1
    IN  [style |-> style, phase |-> phase,
         open |-> Origins(s, i, from - 1),
         close |-> Origins(s, j, last),
         span |-> Origins(s, i, last),
         math |-> Chars(SubSeq(s, from, j - 1)),
         result |-> RenderToString(Chars(SubSeq(s, from, j - 1)), throwOnError)]

\* text.replace(/open([\s\S]*?)close/g, callback) from position i on:
\* the new text and the regions matched, in order
RECURSIVE PassFrom(_, _, _, _)
PassFrom(s, i, style, v) ==
    LET M == {p \in i..Len(s) : DelimEnd(s, p, style) # 0}
    IN  IF M = {} THEN [out |-> SubSeq(s, i, Len(s)), regs |-> <<>>]
        ELSE LET p == SetMin(M)
                 j == DelimEnd(s, p, style)
                 from == p + Len(OpenDelim(style))
                 next == j + Len(CloseDelim(style))
                 rest == PassFrom(s, next, style, v)
             IN  [out |-> SubSeq(s, i, p - 1)
                          \o Callback(v, style, SubSeq(s, from, j - 1),
                                      Origins(s, p, next - 1))
                          \o rest.out,
                  regs |-> <<Region(s, p, j, style, ThrowOnError(v), "resolve")>> \o rest.regs]

\* a pass order that resolves $...$ before $$...$$
InlineFirstOrder(v) ==
    IF v = "App" THEN <<"BlockBracket", "InlineDollar", "InlineParen", "BlockDollar">>
    ELSE <<"BlockBracket", "InlineParen">>

\* the passes of a variant, in the order the code applies them
PassOrder(v) ==
    IF v = "App" THEN <<"BlockBracket", "BlockDollar", "InlineParen", "InlineDollar">>
    ELSE <<"BlockBracket", "InlineParen">>

RECURSIVE RunPasses(_, _, _, _)
RunPasses(s, order, k, v) ==
    IF k > Len(order) THEN [out |-> s, regs |-> <<>>]
    ELSE LET p == PassFrom(s, 1, order[k], v)
             rest == RunPasses(p.out, order, k + 1, v)
         IN  [out |-> rest.out, regs |-> p.regs \o rest.regs]

\* renderMathInElement(elem), elem.innerHTML being text
RenderMathInElement(v, text) == RunPasses(text, PassOrder(v), 1, v)

\* part_000 only: the loop over displayMathRegex.exec(content), which
\* hands each display region of the source to the backend (throwOnError:
\* false) and drops the result.  /\\\[([\s\S]*?)\\\]|\$\$([\s\S]*?)\$\$/g
\* tries the bracket form first at each position.
\* math = displayMatch[1] || displayMatch[2]: an empty bracket group is
\* falsy and the group of the other alternative is undefined, which is no
\* string: the backend throws whatever the option says
Probe(s, i, j, style) ==
    LET r == Region(s, i, j, style, FALSE, "probe")
    IN  IF style = "BlockBracket" /\ r.math = <<>> THEN [r EXCEPT !.result = "throw"]
        ELSE r

RECURSIVE DisplayLoopFrom(_, _)
DisplayLoopFrom(s, i) ==
    LET M == {p \in i..Len(s) : DelimEnd(s, p, "BlockBracket") # 0
                                \/ DelimEnd(s, p, "BlockDollar") # 0}
    IN  IF M = {} THEN <<>>
        ELSE LET p == SetMin(M)
                 jb == DelimEnd(s, p, "BlockBracket")
                 jd == DelimEnd(s, p, "BlockDollar")
             IN  IF jb # 0
                 THEN <<Probe(s, p, jb, "BlockBracket")>>
                      \o DisplayLoopFrom(s, jb + 1)
                 ELSE <<Probe(s, p, jd, "BlockDollar")>>
                      \o DisplayLoopFrom(s, jd + 2)

DisplayLoop(v, content) ==
    IF v = "App" THEN <<>> ELSE DisplayLoopFrom(Src(content), 1)

\* a render that keeps what the container held before
StatefulRendererEffect(v, prev, content) ==
    LET written == Translate(v, content)
        m == RenderMathInElement(v, InnerHTMLOf(written))
    IN  [html |-> written, out |-> prev \o m.out, regs |-> DisplayLoop(v, content) \o m.regs]

\* the effect of LatexRenderer for content: what is written to innerHTML
\* first (html), what innerHTML holds in the end (out) and the regions
\* handed to the backend on the way.  prev is innerHTML before the effect.
LatexRendererEffect(v, prev, content) ==
    LET written == Translate(v, content)
        m == RenderMathInElement(v, InnerHTMLOf(written))
    IN  [html |-> written, out |-> m.out, regs |-> DisplayLoop(v, content) \o m.regs]

-----------------------------------------------------------------------------
(* The documents                                                           *)

TemplateBasic ==
    <<"\\section{", "Untitled Document", "}", NL,
      "\\subsection{", "Introduction", "}", NL,
      "Start typing your professional LaTeX content here.", NL, NL,
      "\\[", " E = mc^2 ", "\\]">>

TemplateReport ==
    <<"\\section{", "Technical Report 2026", "}", NL,
      "\\subsection{", "Abstract", "}", NL,
      "This report outlines the breakthrough in real-time typesetting using the LuminaLaTeX engine.",
      NL, NL,
      "\\subsection{", "System Architecture", "}", NL,
      "\\begin{itemize}", NL,
      "  ", "\\item ", "High-speed KaTeX parsing", NL,
      "  ", "\\item ", "Virtual DOM Diffing", NL,
      "  ", "\\item ", "Asynchronous PDF Generation", NL,
      "\\end{itemize}", NL, NL,
      "\\[", " \\nabla \\times \\mathbf", "{", "E", "}", " = -\\frac", "{",
      "\\partial \\mathbf", "{", "B", "}", "}", "{", "\\partial t", "}", " ", "\\]">>

BibContent ==
    <<"@article", "{", "lumina2026,", NL,
      "  author = ", "{", "Lumina Tech", "}", ",", NL,
      "  title = ", "{", "The Future of LaTeX", "}", ",", NL,
      "  year = ", "{", "2026", "}", NL, "}">>

File(name, content, type) == [name |-> name, content |-> content, type |-> type]

DefaultFiles ==
    <<File("main.tex", TemplateReport, "tex"), File("references.bib", BibContent, "bib")>>

InitialLogs == <<"Lumina Engine Initialized...", "System Ready.">>

\* what the user may type into the editor, pick as a template or be
\* asked for by prompt('File name:') ("" stands for a cancelled prompt)
EditInputs == {<<>>, TemplateBasic}
NameInputs == {"", "notes.tex"}

EndsWithBib(name) == name \in {"references.bib", "extra.bib"}

\* bounds of the model
MaxFiles == 3
MaxLogs == 5

-----------------------------------------------------------------------------
(* The state machine of App and LatexRenderer                              *)

Content == files[activeFileIndex + 1].content

\* the first state of App: the useState initialisers, nothing mounted yet
InitWith(v, fs) ==
    /\ variant = v
    /\ files = fs
    /\ activeFileIndex = 0
    /\ isExporting = FALSE
    /\ logs = InitialLogs
    /\ previewRef = "null"
    /\ inflight = 0
    /\ html = <<>>
    /\ innerHTML = <<>>
    /\ regions = <<>>
    /\ renderedContent = <<>>

Init == InitWith("App", DefaultFiles)

\* useEffect(() => {...}, [content]) of LatexRenderer after a commit that
\* shows content c: it runs on mount and when c differs from last time
Effect(c) ==
    IF previewRef = "div" /\ c = renderedContent
    THEN UNCHANGED <<html, innerHTML, regions, renderedContent>>
    ELSE \E r \in {LatexRendererEffect(variant, innerHTML, c)} :
             /\ html' = r.html
             /\ innerHTML' = r.out
             /\ regions' = r.regs
             /\ renderedContent' = c

\* the first commit: the refs are set and the effects run
Mount ==
    /\ previewRef = "null"
    /\ previewRef' = "div"
    /\ Effect(Content)
    /\ UNCHANGED <<variant, files, activeFileIndex, isExporting, logs, inflight>>

\* [...prev.slice(-10), entry]
SliceAppend(prev, entry) ==
    Append(SubSeq(prev, IF Len(prev) > 10 THEN Len(prev) - 9 ELSE 1, Len(prev)), entry)

\* updateActiveContent(newContent); random stands for Math.random() > 0.95
UpdateActiveContent ==
    /\ previewRef = "div"
    /\ \E newContent \in EditInputs, random \in BOOLEAN :
        /\ random => Len(logs) < MaxLogs
        /\ files' = [files EXCEPT ![activeFileIndex + 1].content = newContent]
        /\ logs' = IF random THEN SliceAppend(logs, "Re-rendered at <time>") ELSE logs
        /\ Effect(newContent)
    /\ UNCHANGED <<variant, activeFileIndex, isExporting, previewRef, inflight>>

\* onClick={() => setActiveFileIndex(i)} of a file tab
SelectFile ==
    /\ previewRef = "div"
    /\ \E i \in 0..(Len(files) - 1) :
        /\ activeFileIndex' = i
        /\ Effect(files[i + 1].content)
    /\ UNCHANGED <<variant, files, isExporting, logs, previewRef, inflight>>

\* addFile()
AddFile ==
    /\ previewRef = "div"
    /\ Len(files) < MaxFiles
    /\ \E name \in NameInputs :
        files' = IF name # ""
                 THEN Append(files, File(name, <<>>, IF EndsWithBib(name) THEN "bib" ELSE "tex"))
                 ELSE files
    /\ UNCHANGED <<variant, activeFileIndex, isExporting, logs, previewRef, inflight,
                   html, innerHTML, regions, renderedContent>>

Without(fs, index) ==
    [k \in 1..(Len(fs) - 1) |-> IF k <= index THEN fs[k] ELSE fs[k + 1]]

\* a deleteFile that leaves the active file index as it is
StaleIndexDeleteFile ==
    /\ previewRef = "div"
    /\ \E index \in 0..(Len(files) - 1), confirmed \in BOOLEAN :
        IF Len(files) = 1 \/ ~confirmed
        THEN UNCHANGED <<files, activeFileIndex, html, innerHTML, regions, renderedContent>>
        ELSE /\ files' = Without(files, index)
             /\ activeFileIndex' = activeFileIndex
             /\ Effect(Without(files, index)[1].content)
    /\ UNCHANGED <<variant, isExporting, logs, previewRef, inflight>>

\* deleteFile(index); confirmed stands for the answer to confirm(...)
DeleteFile ==
    /\ previewRef = "div"
    /\ \E index \in 0..(Len(files) - 1), confirmed \in BOOLEAN :
        IF Len(files) = 1 \/ ~confirmed
        THEN UNCHANGED <<files, activeFileIndex, html, innerHTML, regions, renderedContent>>
        ELSE /\ files' = Without(files, index)
             /\ activeFileIndex' = 0
             /\ Effect(Without(files, index)[1].content)
    /\ UNCHANGED <<variant, isExporting, logs, previewRef, inflight>>

\* an export handler that does not look at isExporting
RepeatedExportPDF ==
    /\ previewRef = "div"
    /\ Len(logs) < MaxLogs
    /\ isExporting' = TRUE
    /\ logs' = Append(logs, "Starting PDF generation...")
    /\ inflight' = inflight + 1
    /\ UNCHANGED <<variant, files, activeFileIndex, previewRef,
                   html, innerHTML, regions, renderedContent>>

\* handleExportPDF() up to its await
HandleExportPDF ==
    /\ previewRef = "div"
    /\ IF previewRef = "null" \/ isExporting
       THEN UNCHANGED <<isExporting, logs, inflight>>
       ELSE /\ Len(logs) < MaxLogs
            /\ isExporting' = TRUE
            /\ logs' = Append(logs, "Starting PDF generation...")
            /\ inflight' = inflight + 1
    /\ UNCHANGED <<variant, files, activeFileIndex, previewRef,
                   html, innerHTML, regions, renderedContent>>

\* handleExportPDF() after its await: html2canvas resolved and the
\* document was built and saved
ExportSucceed ==
    /\ inflight > 0
    /\ logs' = Append(logs, "PDF Export Successful.")
    /\ isExporting' = FALSE
    /\ inflight' = inflight - 1
    /\ UNCHANGED <<variant, files, activeFileIndex, previewRef,
                   html, innerHTML, regions, renderedContent>>

\* a failed export that empties the file on display
LossyExportFail ==
    /\ inflight > 0
    /\ logs' = Append(logs, "PDF Export Failed: Internal Error")
    /\ isExporting' = FALSE
    /\ inflight' = inflight - 1
    /\ files' = [files EXCEPT ![activeFileIndex + 1].content = <<>>]
    /\ UNCHANGED <<variant, activeFileIndex, previewRef,
                   html, innerHTML, regions, renderedContent>>

\* a failed export that leaves the in-progress flag set
StuckExportFail ==
    /\ inflight > 0
    /\ logs' = Append(logs, "PDF Export Failed: Internal Error")
    /\ inflight' = inflight - 1
    /\ UNCHANGED <<variant, files, activeFileIndex, isExporting, previewRef,
                   html, innerHTML, regions, renderedContent>>

\* handleExportPDF() after its await: html2canvas rejected, or building
\* or saving the document threw
ExportFail ==
    /\ inflight > 0
    /\ logs' = Append(logs, "PDF Export Failed: Internal Error")
    /\ isExporting' = FALSE
    /\ inflight' = inflight - 1
    /\ UNCHANGED <<variant, files, activeFileIndex, previewRef,
                   html, innerHTML, regions, renderedContent>>

Next ==
    \/ Mount
    \/ UpdateActiveContent
    \/ SelectFile
    \/ AddFile
    \/ DeleteFile
    \/ HandleExportPDF
    \/ ExportSucceed
    \/ ExportFail

Spec == Init /\ [][Next]_vars

\* the promise of html2canvas settles: the handler resumes after its
\* await, in the try block or in the catch block
ExportSettles == ExportSucceed \/ ExportFail

\* App when every rasterize step that was started settles
SpecSettling == Init /\ [][Next]_vars /\ WF_vars(ExportSettles)

-----------------------------------------------------------------------------
(* Properties of App (Spec)                                                *)

Last(seq) == seq[Len(seq)]

ExportFailed == "PDF Export Failed: Internal Error"
ExportSuccessful == "PDF Export Successful."

\* the .paper element shows nothing: LatexRenderer's container is empty
\* and the References section is not rendered
BibSectionShown ==
    /\ \E k \in 1..Len(files) : files[k].type = "bib"
    /\ files[activeFileIndex + 1].type = "tex"

SurfaceEmpty == previewRef = "div" /\ innerHTML = <<>> /\ ~BibSectionShown

\* C8: the render holds no state between calls.  Whatever contents were
\* rendered on the surface before, the surface shows for the content on
\* display exactly what a first render of that content on an empty surface
\* produces, and the same regions are handed to the backend; so two
\* renders of the same source give the same output.
C8_RenderIsPure ==
    previewRef = "div" =>
        /\ innerHTML = LatexRendererEffect(variant, <<>>, Content).out
        /\ html = LatexRendererEffect(variant, <<>>, Content).html
        /\ regions = LatexRendererEffect(variant, <<>>, Content).regs

\* the surface has rendered main.tex, then references.bib and an edit of
\* it, then main.tex again
C8_Witness ==
    /\ previewRef = "div"
    /\ activeFileIndex = 0
    /\ Len(files) = 2
    /\ files[2].name = "references.bib"
    /\ files[2].content = <<>>
    /\ Content = TemplateReport
    /\ innerHTML # <<>>

\* C9: an export requested while the surface is empty (and no export is
\* running) is fatal for that call and reported: no rasterize step is
\* started and the log ends with the export-failure entry.
C9_EmptySurfaceReported ==
    [][(SurfaceEmpty /\ ~isExporting /\ HandleExportPDF)
          => (inflight' = inflight /\ Last(logs') = ExportFailed)]_vars

\* C10: the step that ends an export appends exactly one entry, the
\* success entry or the export-failure entry (which no render writes);
\* when it is the failure entry, the file list, every file's content, the
\* active file index and the rendered surface are as they were before.
C10_FailedExportKeepsDocument ==
    [][inflight' < inflight =>
          /\ \E entry \in {ExportSuccessful, ExportFailed} : logs' = Append(logs, entry)
          /\ Last(logs') = ExportFailed =>
                /\ files' = files
                /\ activeFileIndex' = activeFileIndex
                /\ innerHTML' = innerHTML
                /\ regions' = regions]_vars

\* C11: at most one export is in flight: however export requests and
\* the settling of the rasterize step interleave, a request made while an
\* export has started and not finished starts no second one, and an
\* export is in flight exactly while the in-progress flag is set.
C11_OneExportInFlight ==
    /\ inflight <= 1
    /\ isExporting <=> inflight = 1

\* a second export is in flight after the first one has ended
C11_Witness ==
    /\ inflight = 1
    /\ isExporting
    /\ \E k \in 1..Len(logs) : logs[k] = ExportSuccessful

\* C12: when the rasterize step settles, every export that has started
\* clears the in-progress flag in the end, whether it succeeded or threw,
\* and the flag is never set while no export is in flight, so that the
\* next request is accepted.
C12_FlagEventuallyCleared ==
    /\ [](inflight = 0 => ~isExporting)
    /\ isExporting ~> ~isExporting

\* an export has ended with success and the flag is clear
C12_Witness ==
    /\ ~isExporting
    /\ inflight = 0
    /\ Last(logs) = ExportSuccessful

\* C13: from the default two-file project on, whatever files are added,
\* deleted, selected and edited, the file list is never empty and the
\* active file index is the index of a file of the list; and deleteFile
\* on the only file left changes nothing.
C13_ActiveFileExists ==
    /\ [](Len(files) >= 1 /\ 0 <= activeFileIndex /\ activeFileIndex < Len(files))
    /\ [][(Len(files) = 1 /\ DeleteFile) => UNCHANGED vars]_vars

\* main.tex was deleted: the one file left is references.bib, at index
\* 0, and it is the file rendered
C13_Witness ==
    /\ Len(files) = 1
    /\ files[1].name = "references.bib"
    /\ activeFileIndex = 0
    /\ renderedContent = files[1].content

\* an export of a non-empty document has failed and been reported
C10_Witness ==
    /\ Last(logs) = ExportFailed
    /\ inflight = 0
    /\ ~isExporting
    /\ Content # <<>>

-----------------------------------------------------------------------------
(* The renderer on bounded documents.  The document is one file whose      *)
(* content is any text over a few lexemes up to a length (App.tsx: what an *)
(* earlier session left in localStorage under 'lumina-files'; part_000:    *)
(* the latex state); the step is the first commit, which runs the effect   *)
(* of LatexRenderer on it.                                                 *)

Variants == {"App", "part_000"}

Texts(lexemes, n) == UNION {[1..k -> lexemes] : k \in 0..n}

InitRender(vs, lexemes, n) ==
    \E v \in vs, c \in Texts(lexemes, n) : InitWith(v, <<File("main.tex", c, "tex")>>)

NextRender == Mount

\* math regions in both variants
MathLexemes == {"$", "\\[", "\\]", "\\(", "\\)", "x", "{", "&"}
MaxMathLen == 5
InitMath == InitRender(Variants, MathLexemes, MaxMathLen)
SpecMath == InitMath /\ [][NextRender]_vars

\* the order of the passes in App.tsx
DollarLexemes == {"$", "\\[", "\\]", "\\(", "\\)", "x"}
MaxDollarLen == 5
InitDollar == InitRender({"App"}, DollarLexemes, MaxDollarLen)
SpecDollar == InitDollar /\ [][NextRender]_vars

\* structural commands in both variants
StructLexemes == Openers \cup {"}", "a", "\\item ", NL}
MaxStructLen == 4
InitStruct == InitRender(Variants, StructLexemes, MaxStructLen)
SpecStruct == InitStruct /\ [][NextRender]_vars

\* several commands of one kind on a line
BoldLexemes == {"\\textbf{", "}", "m"}
MaxBoldLen == 7
InitBold == InitRender(Variants, BoldLexemes, MaxBoldLen)
SpecBold == InitBold /\ [][NextRender]_vars

-----------------------------------------------------------------------------
(* Properties of the math passes (SpecMath, SpecDollar)                    *)

Resolved == {k \in 1..Len(regions) : regions[k].phase = "resolve"}

\* C1: no two regions resolved by the passes share a character of the
\* original source: a later pass matches nothing inside, or across the
\* border of, what an earlier pass substituted.
C1_RegionsDisjoint ==
    \A i, j \in Resolved : i < j => regions[i].span \cap regions[j].span = {}

\* the text of the source between two delimiters
Between(content, open, close) == SubSeq(content, SetMax(open) + 1, SetMin(close) - 1)

\* C2: the math handed to the backend for a matched region is the text of
\* the original source between the region's delimiters, unchanged.
C2_VerbatimHandoff ==
    \A k \in 1..Len(regions) :
        regions[k].math = Between(Content, regions[k].open, regions[k].close)

\* the order of the passes the resolver is to keep
FixedOrder == <<"BlockBracket", "BlockDollar", "InlineParen", "InlineDollar">>

OrderIndex(style) == CHOOSE k \in 1..Len(FixedOrder) : FixedOrder[k] = style

\* the document $$ m $$ with no "$" in m
DoubleDollar(c) ==
    /\ Len(c) >= 4
    /\ \A k \in 1..Len(c) : c[k] = "$" <=> k \in {1, 2, Len(c) - 1, Len(c)}

\* C3: the regions are resolved in the order BlockBracket, BlockDollar,
\* InlineParen, InlineDollar; and the document $$ m $$ resolves as exactly
\* one BlockDollar region that is all of the document, with m handed to
\* the backend when no earlier pass touched it, never as an InlineDollar
\* region, and no "$" is left over in the output.
C3_FixedPassOrder ==
    previewRef = "div" =>
        /\ \A i, j \in 1..Len(regions) :
              i < j => OrderIndex(regions[i].style) <= OrderIndex(regions[j].style)
        /\ DoubleDollar(Content) =>
              /\ Cardinality({k \in 1..Len(regions) : regions[k].style = "BlockDollar"}) = 1
              /\ \A k \in 1..Len(regions) :
                    /\ regions[k].style # "InlineDollar"
                    /\ regions[k].style = "BlockDollar" =>
                          /\ regions[k].span = 1..Len(Content)
                          /\ regions[k].open = {1, 2}
                          /\ regions[k].close = {Len(Content) - 1, Len(Content)}
                          /\ regions[1].style = "BlockDollar" =>
                                regions[k].math = SubSeq(Content, 3, Len(Content) - 2)
              /\ \A i \in 1..Len(innerHTML) : innerHTML[i].c # "$"

\* $$x$$ has been rendered: one block region with math x
C3_Witness ==
    /\ previewRef = "div"
    /\ Content = <<"$", "$", "x", "$", "$">>
    /\ Len(regions) = 1
    /\ regions[1].style = "BlockDollar"
    /\ regions[1].math = <<"x">>

\* the elements that mark math as errored
ErrorMarkers ==
    {"<span style=\"color: red\">", "<span class=\"math-error\">",
     "<span class=\"katex-error\">"}

\* the output has, at position i, the error placeholder of region k: a
\* marker that stems from the region, followed by the region's raw math
MarksRegion(i, k) ==
    /\ innerHTML[i].c \in ErrorMarkers
    /\ innerHTML[i].o = regions[k].span
    /\ i + Len(regions[k].math) <= Len(innerHTML)
    /\ \A m \in 1..Len(regions[k].math) :
          innerHTML[i + m].c \in {regions[k].math[m], KatexEscape(regions[k].math[m])}

\* C4: every region on which the backend failed in a pass, whatever the
\* style of the pass, has exactly one error placeholder in the output,
\* which shows the region's raw math.
C4_FailureMarked ==
    \A k \in Resolved :
        regions[k].result # "ok" =>
            Cardinality({i \in 1..Len(innerHTML) : MarksRegion(i, k)}) = 1

-----------------------------------------------------------------------------
(* Properties of the structural translation (SpecStruct, SpecBold)         *)

\* the last position of the plain text that follows position p
PlainEnd(c, p) ==
    SetMin({q \in p..Len(c) : q = Len(c) \/ c[q + 1] # "a"})

\* C5: \item wraps the text that follows it on its line in the list-item
\* node: the markup written for an \item followed by plain text is <li>,
\* that text, </li>.
C5_ItemWrapsText ==
    previewRef = "div" =>
        \A p \in 1..Len(Content) :
            (Content[p] = "\\item " /\ PlainEnd(Content, p) > p) =>
                \E i \in 1..Len(html) :
                    /\ html[i] = El("<li>", {p})
                    /\ i + (PlainEnd(Content, p) - p) + 1 <= Len(html)
                    /\ \A m \in 1..(PlainEnd(Content, p) - p) :
                          html[i + m] = El("a", {p + m})
                    /\ html[i + (PlainEnd(Content, p) - p) + 1].c = "</li>"

\* the node each braced command stands for
NodeOpen(opener) ==
    CASE opener = "\\section{" -> "<h1 class=\"latex-h1\">"
      [] opener = "\\subsection{" -> "<h2 class=\"latex-h2\">"
      [] opener = "\\textbf{" -> "<strong>"
      [] opener = "\\textit{" -> "<em>"
      [] OTHER -> "<u>"

NodeClose(opener) ==
    CASE opener = "\\section{" -> "</h1>"
      [] opener = "\\subsection{" -> "</h2>"
      [] opener = "\\textbf{" -> "</strong>"
      [] opener = "\\textit{" -> "</em>"
      [] OTHER -> "</u>"

\* the document has one braced command, at position p, and its argument
\* is plain text
OneCommand(c, p) ==
    /\ p + 2 <= Len(c)
    /\ c[p] \in Openers
    /\ c[p + 1] = "a"
    /\ c[p + 2] = "}"
    /\ \A q \in 1..Len(c) : c[q] \in Openers => q = p

\* C6: in every variant, a braced command with argument X is written as
\* the node of the command with text exactly X.
C6_NodeTextIsArgument ==
    previewRef = "div" =>
        \A p \in 1..Len(Content) :
            OneCommand(Content, p) =>
                \E i \in 1..Len(html) :
                    /\ i + 2 <= Len(html)
                    /\ html[i] = El(NodeOpen(Content[p]), {p})
                    /\ html[i + 1] = El("a", {p + 1})
                    /\ html[i + 2] = El(NodeClose(Content[p]), {p + 2})

\* the document \textbf{ A } M \textbf{ B } where A, M, B are plain text;
\* i and j are the positions of the first "}" and the second \textbf{
TwoBold(c, i, j) ==
    /\ 1 < i /\ i < j /\ j < Len(c)
    /\ \A k \in 1..Len(c) :
          c[k] = (IF k \in {1, j} THEN "\\textbf{" ELSE IF k \in {i, Len(c)} THEN "}" ELSE "m")

\* C7: the braced argument is matched non-greedily: two \textbf commands
\* on one line are written as two strong nodes with their own arguments,
\* and the text between them stays between the nodes, unchanged.
C7_NonGreedyArgument ==
    previewRef = "div" =>
        \A i, j \in 1..Len(Content) :
            TwoBold(Content, i, j) =>
                html = [k \in 1..Len(Content) |->
                           IF k \in {1, j} THEN El("<strong>", {k})
                           ELSE IF k \in {i, Len(Content)} THEN El("</strong>", {k})
                           ELSE El("m", {k})]

\* \textbf{m}m\textbf{m} has been translated
C7_Witness ==
    /\ previewRef = "div"
    /\ Content = <<"\\textbf{", "m", "}", "m", "\\textbf{", "m", "}">>
    /\ Cardinality({k \in 1..Len(html) : html[k].c = "<strong>"}) = 2

====
